---- MODULE Spec2Model ----
(***************************************************************************)
(* Modified Nodal Analysis matrix assembly of circuit-solver-algorithm:    *)
(* the matrix-strategy solver (solvers/node_matrix_solver.rs), the wasm    *)
(* entry point solve (interfaces.rs) and duplicate validation              *)
(* (validation.rs).  The Container (element list, node discovery), the     *)
(* Operation algebra and the step solver live outside the three source     *)
(* files; they are modelled from the specification and the unit tests.     *)
(***************************************************************************)
EXTENDS Integers, Sequences, FiniteSets, TLC

VARIABLES
    pc,         \* position in the life cycle of one analysis
    container,  \* the Container: elements, nodes, super nodes, meshes
    solver,     \* the NodeSolver: a_matrix, x_matrix, z_matrix
    args,       \* the arguments of the running entry point
    ret         \* what the last entry point returned

vars == <<pc, container, solver, args, ret>>

(***************************************************************************)
(* Bounds of the model.                                                    *)
(***************************************************************************)
\* most two-terminal elements (besides the ground element) in one input
MaxElements == 2
\* junctions besides the reference junction 0: a circuit of k elements that
\* reaches the reference junction touches at most k others
MaxJunctions == MaxElements
\* literal values the first element of an input may carry
Values == {2, 5}

(***************************************************************************)
(* Element: component.rs / elements.rs (outside the source files).         *)
(***************************************************************************)
Classes == {"Resistor", "VoltageSrc", "CurrentSrc"}

GroundId == 0

Element(id, class, value, positive, negative) ==
    [id |-> id, class |-> class, value |-> value,
     positive |-> positive, negative |-> negative]

(***************************************************************************)
(* Small helpers on sequences and sets.                                    *)
(***************************************************************************)
Range(s) == {s[k] : k \in DOMAIN s}

Min(S) == CHOOSE x \in S : \A y \in S : x <= y

RECURSIVE SetToSortedSeq(_)
SetToSortedSeq(S) ==
    IF S = {} THEN <<>> ELSE <<Min(S)>> \o SetToSortedSeq(S \ {Min(S)})

(***************************************************************************)
(* The inputs: element lists wired at junctions 0..MaxJunctions, junction  *)
(* 0 being the one the ground element sits on.  The terminal sets of an    *)
(* element hold the ids of the elements joined to that terminal.           *)
(***************************************************************************)
Pairs == {pn \in (0..MaxJunctions) \X (0..MaxJunctions) : pn[1] # pn[2]}

\* the junctions of a wiring in the order its terminals name them
RECURSIVE Terminals(_)
Terminals(w) ==
    IF w = <<>> THEN <<>> ELSE <<w[1][1], w[1][2]>> \o Terminals(Tail(w))

\* junctions are numbered in the order the wiring first names them
Canonical(w) ==
    LET t == Terminals(w)
    IN \A k \in DOMAIN t :
          t[k] > 1 => \E h \in 1..(k - 1) : t[h] = t[k] - 1

\* the junctions joined to those of S by a chain of elements
RECURSIVE Reach(_, _)
Reach(w, S) ==
    LET T == S \cup {w[e][1] : e \in {x \in DOMAIN w : w[x][2] \in S}}
               \cup {w[e][2] : e \in {x \in DOMAIN w : w[x][1] \in S}}
    IN IF T = S THEN S ELSE Reach(w, T)

\* no element floats: every junction is joined to the reference junction
Grounded(w) == \A e \in DOMAIN w : w[e][1] \in Reach(w, {0})

Wirings(k) == {w \in [1..k -> Pairs] : Canonical(w) /\ Grounded(w)}

\* the literal values of one input: the first element carries v, each next
\* element one more than the one before it, so that no two are equal
ValuesFrom(k, v) == [e \in 1..k |-> v + e - 1]

\* the ids of the elements other than id that touch junction j
At(w, j, id) ==
    {e \in 1..Len(w) : e # id /\ (w[e][1] = j \/ w[e][2] = j)}
        \cup (IF j = 0 /\ id # GroundId THEN {GroundId} ELSE {})

Ground(w) == Element(GroundId, "Ground", 0, At(w, 0, GroundId), {})

ElementsOf(w, cls, val) ==
    <<Ground(w)>> \o
    [e \in 1..Len(w) |->
        Element(e, cls[e], val[e], At(w, w[e][1], e), At(w, w[e][2], e))]

\* ContainerSetup values that deserialize, and one payload that does not
ContainerSetup(elements) == [wellformed |-> TRUE, elements |-> elements]

Malformed == [wellformed |-> FALSE, elements |-> <<>>]

\* an element list that repeats its last element (rejected by validation)
Repeated(l) == Append(l, l[Len(l)])

(***************************************************************************)
(* validation.rs: duplicate detection.                                     *)
(***************************************************************************)
KnownIssue(msg) == [issue |-> "KnownIssue", msg |-> msg, list |-> <<>>]

MultipleIssues(list) == [issue |-> "MultipleIssues", msg |-> "", list |-> list]

\* impl Display for StatusError
RECURSIVE DisplayIssues(_)
DisplayStatusError(e) ==
    CASE e.issue = "Unknown" -> "Unknown Issue"
      [] e.issue = "KnownIssue" -> "Known Issue: " \o e.msg
      [] OTHER -> "Multiple Issues: [" \o DisplayIssues(e.list) \o "]"
DisplayIssues(list) ==
    IF list = <<>> THEN ""
    ELSE "KnownIssue(" \o list[1].msg \o ")"
         \o (IF Len(list) > 1 THEN ", " ELSE "") \o DisplayIssues(Tail(list))

\* check_duplicates: one KnownIssue per item already seen, in list order
RECURSIVE check_duplicates_from(_, _, _, _)
check_duplicates_from(list, k, seen, errors) ==
    IF k > Len(list) THEN errors
    ELSE check_duplicates_from(
            list, k + 1, Append(seen, list[k]),
            IF list[k] \in Range(seen)
                THEN Append(errors,
                            KnownIssue("Duplicate: " \o ToString(list[k].id)))
                ELSE errors)

check_duplicates(list) == check_duplicates_from(list, 1, <<>>, <<>>)

\* Container::validate: an element list with a repeated element is rejected
validate(c) ==
    LET errors == check_duplicates(c.elements)
    IN IF errors = <<>>
          THEN [ok |-> TRUE, error |-> MultipleIssues(<<>>)]
          ELSE [ok |-> FALSE, error |-> MultipleIssues(errors)]

(***************************************************************************)
(* Container (container.rs, outside the source files): the element list    *)
(* and the topology derived from it.                                       *)
(***************************************************************************)
NewContainer ==
    [elements |-> <<>>, nodes |-> <<>>, super_nodes |-> <<>>, meshes |-> FALSE]

add_element_core(c, element) ==
    [c EXCEPT !.elements = Append(c.elements, element)]

\* impl From<ContainerSetup> for Container
RECURSIVE ContainerFromList(_, _)
ContainerFromList(c, elements) ==
    IF elements = <<>> THEN c
    ELSE ContainerFromList(add_element_core(c, elements[1]), Tail(elements))

ContainerFrom(setup) == ContainerFromList(NewContainer, setup.elements)

get_elements(c) == c.elements

ElementById(c, id) ==
    LET k == CHOOSE h \in DOMAIN c.elements : c.elements[h].id = id
    IN c.elements[k]

get_voltage_sources(c) ==
    SelectSeq(c.elements, LAMBDA e : e.class = "VoltageSrc")

\* A node (Tool): an id and the ids of its member elements, in ascending order.
Node(id, members) == [id |-> id, members |-> members]

\* Tool::contains
contains(node, element) == element.id \in Range(node.members)

\* the member sets the terminals of the elements name, in discovery order:
\* every element in list order, its positive terminal before its negative
RECURSIVE Junctions(_)
Junctions(elements) ==
    IF elements = <<>> THEN <<>>
    ELSE LET e == elements[1]
         IN (IF e.class = "Ground" THEN <<>>
             ELSE <<{e.id} \cup e.positive, {e.id} \cup e.negative>>)
            \o Junctions(Tail(elements))

\* create_nodes: one node per distinct junction that does not hold the ground
\* element, numbered from 1 in discovery order
RECURSIVE Discover(_, _)
Discover(junctions, nodes) ==
    IF junctions = <<>> THEN nodes
    ELSE LET j == junctions[1]
             known == \E k \in DOMAIN nodes : Range(nodes[k].members) = j
         IN Discover(
                Tail(junctions),
                IF GroundId \in j \/ known THEN nodes
                ELSE Append(nodes, Node(Len(nodes) + 1, SetToSortedSeq(j))))

create_nodes(c) == [c EXCEPT !.nodes = Discover(Junctions(c.elements), <<>>)]

nodes(c) == c.nodes

\* two nodes are bridged when one voltage source is a member of both
Bridged(c, a, b) ==
    \E e \in Range(c.elements) :
        e.class = "VoltageSrc" /\ contains(a, e) /\ contains(b, e)

\* create_super_nodes: the nodes contracted along voltage sources
RECURSIVE Contract(_, _)
Contract(c, groups) ==
    IF \E g \in groups, h \in groups :
            g # h /\ \E a \in g, b \in h : Bridged(c, c.nodes[a], c.nodes[b])
    THEN LET gh == CHOOSE p \in groups \X groups :
                      p[1] # p[2] /\ \E a \in p[1], b \in p[2] :
                                        Bridged(c, c.nodes[a], c.nodes[b])
         IN Contract(c, (groups \ {gh[1], gh[2]}) \cup {gh[1] \cup gh[2]})
    ELSE groups

SuperNodeOf(c, g) ==
    Node(Min(g), SetToSortedSeq(UNION {Range(c.nodes[k].members) : k \in g}))

create_super_nodes(c) ==
    LET groups == Contract(c, {{k} : k \in DOMAIN c.nodes})
        firsts == SetToSortedSeq({Min(g) : g \in groups})
    IN [c EXCEPT !.super_nodes =
            [k \in DOMAIN firsts |->
                SuperNodeOf(c, CHOOSE g \in groups : Min(g) = firsts[k])]]

\* create_meshes / create_super_meshes: mesh topology is built, never solved
create_meshes(c) == [c EXCEPT !.meshes = TRUE]

create_super_meshes(c) == c

(***************************************************************************)
(* Operation (operations crate, outside the source files): the symbolic    *)
(* expression of a matrix cell.                                            *)
(***************************************************************************)
Value(v) == [op |-> "Value", v |-> v]

Variable(x) == [op |-> "Variable", of |-> x]

Sum(set) == [op |-> "Sum", terms |-> set]

Negate(a) == [op |-> "Negate", a |-> a]

Divide(a, b) == [op |-> "Divide", a |-> a, b |-> b]

Text(t) == [op |-> "Text", text |-> t]

\* EquationRepr::new(label, value)
EquationRepr(label, value) == [repr |-> label, value |-> value]

\* pretty_string of a node and of an element (the labels of test_x_matrix)
NodePrettyString(node) == "Node: " \o ToString(node.id)

ElementPrettyString(e) ==
    CASE e.class = "Resistor" -> "R" \o ToString(e.id)
      [] e.class = "VoltageSrc" ->
            "SRC(V)" \o ToString(e.id) \o ": " \o ToString(e.value) \o " V"
      [] e.class = "CurrentSrc" ->
            "SRC(C)" \o ToString(e.id) \o ": " \o ToString(e.value) \o " A"
      [] OTHER -> "GND"

\* EquationRepr::from(element): the element's name and value
EquationReprFrom(e) ==
    EquationRepr(IF e.class = "Resistor" THEN "R" \o ToString(e.id)
                 ELSE ElementPrettyString(e), e.value)

(***************************************************************************)
(* ndarray::Array2<Operation>: a shape and one cell per index pair.        *)
(***************************************************************************)
\* Array2::zeros((rows, cols)): every cell is Operation's zero, Value(0.0)
zeros(rows, cols) ==
    [rows |-> rows, cols |-> cols,
     cell |-> [rc \in (0..(rows - 1)) \X (0..(cols - 1)) |-> Value(0)]]

\* matrix[[r, c]] = v
Put(matrix, r, c, v) == [matrix EXCEPT !.cell[<<r, c>>] = v]

\* matrix.slice_mut(s![r0..r0+part.rows, c0..c0+part.cols]).assign(&part)
SliceAssign(matrix, r0, c0, part) ==
    [matrix EXCEPT !.cell =
        [rc \in DOMAIN matrix.cell |->
            IF /\ r0 <= rc[1] /\ rc[1] < r0 + part.rows
               /\ c0 <= rc[2] /\ rc[2] < c0 + part.cols
            THEN part.cell[<<rc[1] - r0, rc[2] - c0>>]
            ELSE matrix.cell[rc]]]

\* matrix.swap_axes(0, 1)
swap_axes(matrix) ==
    [rows |-> matrix.cols, cols |-> matrix.rows,
     cell |-> [rc \in (0..(matrix.cols - 1)) \X (0..(matrix.rows - 1)) |->
                    matrix.cell[<<rc[2], rc[1]>>]]]

(***************************************************************************)
(* solvers/node_matrix_solver.rs: the sub-matrices.  Loop indices i and j  *)
(* are those of the Rust enumerate(), counted from 0.                      *)
(***************************************************************************)
\* nodes.sort_by(|a, b| a.id.cmp(&b.id)): a stable sort by id
RECURSIVE InsertById(_, _)
InsertById(sorted, node) ==
    IF sorted = <<>> THEN <<node>>
    ELSE IF sorted[Len(sorted)].id <= node.id THEN Append(sorted, node)
    ELSE Append(InsertById(SubSeq(sorted, 1, Len(sorted) - 1), node),
                sorted[Len(sorted)])

RECURSIVE SortById(_)
SortById(list) ==
    IF list = <<>> THEN <<>>
    ELSE InsertById(SortById(SubSeq(list, 1, Len(list) - 1)), list[Len(list)])

\* the members of a node as elements
Members(c, node) == [k \in DOMAIN node.members |-> ElementById(c, node.members[k])]

\* the class filter of the diagonal left out: every member counts as a resistor
ResistorsUnfiltered(members) == members

Resistors(members) == SelectSeq(members, LAMBDA e : e.class = "Resistor")

\* the diagonal term of one node: the sum of 1/R over its resistors
DiagonalSet(c, tool) ==
    LET equation_members == Resistors(Members(c, tool))
    IN [k \in DOMAIN equation_members |->
            Divide(Value(1), Variable(EquationReprFrom(equation_members[k])))]

\* the inner loops of the off-diagonal: one -1/R per pair of members of tool and
\* tool2 that are the same resistor
RECURSIVE OffDiagonalInner(_, _, _, _)
OffDiagonalInner(element, members2, h, set) ==
    IF h > Len(members2) THEN set
    ELSE OffDiagonalInner(
            element, members2, h + 1,
            IF members2[h].class = "Resistor" /\ element.id = members2[h].id
                THEN Append(set, Negate(Divide(Value(1), Variable(element))))
                ELSE set)

RECURSIVE OffDiagonalSet(_, _, _, _)
OffDiagonalSet(members, members2, k, set) ==
    IF k > Len(members) THEN set
    ELSE OffDiagonalSet(
            members, members2, k + 1,
            IF members[k].class # "Resistor" THEN set
            ELSE OffDiagonalInner(members[k], members2, 1, set))

RECURSIVE GDiagonal(_, _, _, _, _)
GDiagonal(c, sorted, n, i, matrix) ==
    IF i >= Len(sorted) THEN matrix
    ELSE GDiagonal(c, sorted, n, i + 1,
                   Put(matrix, n - i - 1, n - i - 1,
                       Sum(DiagonalSet(c, sorted[i + 1]))))

RECURSIVE GOffDiagonal(_, _, _, _, _, _)
GOffDiagonal(c, sorted, n, i, j, matrix) ==
    IF i >= Len(sorted) THEN matrix
    ELSE IF j >= Len(sorted) THEN GOffDiagonal(c, sorted, n, i + 1, 0, matrix)
    ELSE IF i = j THEN GOffDiagonal(c, sorted, n, i, j + 1, matrix)
    ELSE GOffDiagonal(
            c, sorted, n, i, j + 1,
            Put(matrix, n - i - 1, n - j - 1,
                Sum(OffDiagonalSet(Members(c, sorted[i + 1]),
                                   Members(c, sorted[j + 1]), 1, <<>>))))

\* the value a failed assert_eq! leaves: the call panics
Panicked == [rows |-> 0 - 1, cols |-> 0 - 1, cell |-> <<>>]

form_g_matrix(c, n) ==
    LET sorted == SortById(nodes(c))
    IN IF Len(sorted) # n THEN Panicked
       ELSE GOffDiagonal(c, sorted, n, 0, 0,
                         GDiagonal(c, sorted, n, 0, zeros(n, n)))

\* the sign decided on the negative terminal set of the source
BSignOnNegative(c, tool, element) ==
    IF ElementById(c, tool.members[1]).id \in element.negative
        THEN Value(0 - 1)
        ELSE Value(1)

\* the cell of node tool and voltage source element
BSign(c, tool, element) ==
    IF ElementById(c, tool.members[1]).id \in element.positive
        THEN Value(0 - 1)
        ELSE Value(1)

RECURSIVE BLoop(_, _, _, _, _, _)
BLoop(c, n, sources, i, j, matrix) ==
    IF i >= Len(nodes(c)) THEN matrix
    ELSE IF j >= Len(sources) THEN BLoop(c, n, sources, i + 1, 0, matrix)
    ELSE BLoop(c, n, sources, i, j + 1,
               IF contains(nodes(c)[i + 1], sources[j + 1])
                   THEN Put(matrix, n - i - 1, j,
                            BSign(c, nodes(c)[i + 1], sources[j + 1]))
                   ELSE matrix)

form_b_matrix(c, n, m) ==
    BLoop(c, n, get_voltage_sources(c), 0, 0, zeros(n, m))

\* form_c_matrix without the swap of the axes
form_c_matrix_unswapped(c, n, m) == form_b_matrix(c, n, m)

form_c_matrix(c, n, m) == swap_axes(form_b_matrix(c, n, m))

form_d_matrix(c, m) == zeros(m, m)

\* form_a_matrix that never assigns the C block
form_a_matrix_without_c(c, n, m) ==
    LET matrix == zeros(n + m, n + m)
        g == form_g_matrix(c, n)
        b == form_b_matrix(c, n, m)
        d == form_d_matrix(c, m)
    IN SliceAssign(SliceAssign(SliceAssign(matrix, 0, 0, g), 0, n, b), n, n, d)

form_a_matrix(c, n, m) ==
    LET matrix == zeros(n + m, n + m)
        g == form_g_matrix(c, n)
        b == form_b_matrix(c, n, m)
        cm == form_c_matrix(c, n, m)
        d == form_d_matrix(c, m)
    IN SliceAssign(SliceAssign(SliceAssign(SliceAssign(
            matrix, 0, 0, g), 0, n, b), n, 0, cm), n, n, d)

\* the class filter of the I block left out: every source of the node is summed
RECURSIVE CurrentSetAnySource(_, _, _)
CurrentSetAnySource(members, k, set) ==
    IF k > Len(members) THEN set
    ELSE CurrentSetAnySource(
            members, k + 1,
            IF members[k].class \notin {"CurrentSrc", "VoltageSrc"} THEN set
            ELSE Append(set, Value(members[k].value)))

\* the current-source values of one node, in member order
RECURSIVE CurrentSet(_, _, _)
CurrentSet(members, k, set) ==
    IF k > Len(members) THEN set
    ELSE CurrentSet(members, k + 1,
                    IF members[k].class # "CurrentSrc" THEN set
                    ELSE Append(set, Value(members[k].value)))

RECURSIVE ZCurrents(_, _, _)
ZCurrents(c, i, matrix) ==
    IF i >= Len(nodes(c)) THEN matrix
    ELSE LET set == CurrentSet(Members(c, nodes(c)[i + 1]), 1, <<>>)
         IN ZCurrents(c, i + 1,
                      IF Len(set) = 0 THEN matrix
                      ELSE Put(matrix, i, 0, Sum(set)))

RECURSIVE ZSources(_, _, _, _)
ZSources(sources, n, i, matrix) ==
    IF i >= Len(sources) THEN matrix
    ELSE ZSources(sources, n, i + 1,
                  Put(matrix, n + i, 0, Value(sources[i + 1].value)))

form_z_matrix(c, n, m) ==
    ZSources(get_voltage_sources(c), n, 0, ZCurrents(c, 0, zeros(n + m, 1)))

RECURSIVE XNodes(_, _, _)
XNodes(c, i, matrix) ==
    IF i >= Len(nodes(c)) THEN matrix
    ELSE XNodes(c, i + 1,
                Put(matrix, i, 0,
                    Variable(EquationRepr(NodePrettyString(nodes(c)[i + 1]), 0))))

RECURSIVE XSources(_, _, _, _)
XSources(sources, n, i, matrix) ==
    IF i >= Len(sources) THEN matrix
    ELSE XSources(sources, n, i + 1,
                  Put(matrix, n + i, 0,
                      Variable(EquationRepr(ElementPrettyString(sources[i + 1]), 0))))

form_x_matrix(c, n, m) ==
    XSources(get_voltage_sources(c), n, 0, XNodes(c, 0, zeros(n + m, 1)))

(***************************************************************************)
(* Canonical text of an Operation and of a matrix (operations crate,       *)
(* outside the source files; the cell texts are those of the unit tests).  *)
(***************************************************************************)
RECURSIVE equation_repr(_)
RECURSIVE JoinTerms(_)
JoinTerms(terms) ==
    IF terms = <<>> THEN ""
    ELSE equation_repr(terms[1])
         \o (IF Len(terms) > 1 THEN " + " ELSE "") \o JoinTerms(Tail(terms))

RECURSIVE matrix_to_latex(_)
equation_repr(operation) ==
    CASE operation.op = "Value" -> ToString(operation.v)
      [] operation.op = "Sum" -> JoinTerms(operation.terms)
      [] operation.op = "Negate" -> "-" \o equation_repr(operation.a)
      [] operation.op = "Divide" ->
            equation_repr(operation.a) \o "/" \o equation_repr(operation.b)
      [] operation.op = "Text" -> operation.text
      [] OTHER ->
            IF "repr" \in DOMAIN operation.of THEN operation.of.repr
            ELSE IF "class" \in DOMAIN operation.of
                THEN EquationReprFrom(operation.of).repr
            ELSE matrix_to_latex(operation.of)

RECURSIVE LatexCells(_, _, _)
LatexCells(matrix, r, c) ==
    IF r >= matrix.rows THEN ""
    ELSE IF c >= matrix.cols
        THEN (IF r + 1 < matrix.rows THEN " \\\\ " ELSE "")
             \o LatexCells(matrix, r + 1, 0)
    ELSE equation_repr(matrix.cell[<<r, c>>])
         \o (IF c + 1 < matrix.cols THEN " & " ELSE "")
         \o LatexCells(matrix, r, c + 1)

matrix_to_latex(matrix) ==
    "\\begin{bmatrix}" \o LatexCells(matrix, 0, 0) \o "\\end{bmatrix}"

(***************************************************************************)
(* solvers/solver.rs (outside the source files): Step and the result of a  *)
(* solve.                                                                  *)
(***************************************************************************)
Step(label, sub_steps) == [label |-> label, sub_steps |-> sub_steps]

Ok(steps) == [kind |-> "Ok", steps |-> steps, text |-> ""]

Err(text) == [kind |-> "Err", steps |-> <<>>, text |-> text]

\* serialize_steps: every Step with its sub steps as canonical text
serialize_steps(steps) ==
    Ok([k \in DOMAIN steps |->
          Step(steps[k].label,
               [h \in DOMAIN steps[k].sub_steps |->
                    equation_repr(steps[k].sub_steps[h])])])

(***************************************************************************)
(* NodeSolver (solvers/node_matrix_solver.rs).                             *)
(***************************************************************************)
\* the source count of NodeSolver::new
SourceCount(c) ==
    Len(SelectSeq(get_elements(c),
                  LAMBDA x : x.class = "VoltageSrc" \/ x.class = "CurrentSrc"))

\* NodeSolver::new once create_nodes has run on c
NodeSolverNew(c) ==
    LET n == Len(nodes(c))
        m == SourceCount(c)
    IN [a_matrix |-> form_a_matrix(c, n, m),
        x_matrix |-> form_x_matrix(c, n, m),
        z_matrix |-> form_z_matrix(c, n, m)]

\* an inverse_a_matrix that is computed: every cell replaced by its reciprocal
InverseAMatrixComputed(self) ==
    [self.a_matrix EXCEPT !.cell =
        [rc \in DOMAIN self.a_matrix.cell |->
            Divide(Value(1), self.a_matrix.cell[rc])]]

\* what solve() writes into inverse_a_matrix
InverseAMatrix(self) == self.a_matrix

FinalEquation(self) ==
    Text(matrix_to_latex(self.x_matrix) \o " = "
         \o matrix_to_latex(InverseAMatrix(self)) \o "^{-1} * "
         \o matrix_to_latex(self.z_matrix))

\* NodeSolver::solve with the Z and X steps pushed in the other order
NodeSolverSolveSwapped(self) ==
    Ok(<<Step("A Matrix", <<Variable(self.a_matrix)>>),
         Step("X Matrix", <<Variable(self.x_matrix)>>),
         Step("Z Matrix", <<Variable(self.z_matrix)>>),
         Step("Inverse A Matrix", <<Text("TODO")>>),
         Step("Final Equation", <<>>),
         Step("Final Equation", <<FinalEquation(self)>>)>>)

\* NodeSolver::solve
NodeSolverSolve(self) ==
    Ok(<<Step("A Matrix", <<Variable(self.a_matrix)>>),
         Step("Z Matrix", <<Variable(self.z_matrix)>>),
         Step("X Matrix", <<Variable(self.x_matrix)>>),
         Step("Inverse A Matrix", <<Text("TODO")>>),
         Step("Final Equation", <<>>),
         Step("Final Equation", <<FinalEquation(self)>>)>>)

(***************************************************************************)
(* The state machine.  pc: "start" (nothing loaded), "loaded" (a validated *)
(* Container), "built" (its nodes discovered), "constructed" (a NodeSolver *)
(* over it), "solved" (NodeSolver::solve returned), "returned" (the wasm   *)
(* entry point solve returned), "rejected" (the input was refused).        *)
(***************************************************************************)
TheContainer == container[1]

TheSolver == solver[1]

TheResult == ret[1]

Init ==
    /\ pc = "start"
    /\ container = <<>>
    /\ solver = <<>>
    /\ args = <<>>
    /\ ret = <<>>

\* load_wasm_container: deserialize, build the Container, validate it
load_wasm_container(js) ==
    /\ pc = "start"
    /\ js.wellformed
    /\ LET c == ContainerFrom(js)
           status == validate(c)
       IN /\ container' = <<c>>
          /\ pc' = IF status.ok THEN "loaded" ELSE "rejected"
          /\ ret' = IF status.ok
                        THEN <<[Ok(<<>>) EXCEPT !.text = "Loaded Successfully"]>>
                    ELSE <<Err(DisplayStatusError(status.error))>>
    /\ args' = <<js>>
    /\ UNCHANGED solver

\* Container::create_nodes, called on a loaded Container
CreateNodes ==
    /\ pc = "loaded"
    /\ container' = <<create_nodes(TheContainer)>>
    /\ pc' = "built"
    /\ UNCHANGED <<solver, args, ret>>

\* NodeSolver::new: discovers the nodes, counts the sources, forms A, X and Z
New ==
    /\ pc \in {"loaded", "built"}
    /\ LET c == create_nodes(TheContainer)
       IN /\ container' = <<c>>
          /\ solver' = <<NodeSolverNew(c)>>
    /\ pc' = "constructed"
    /\ UNCHANGED <<args, ret>>

\* NodeSolver::solve
Solve ==
    /\ pc = "constructed"
    /\ ret' = <<NodeSolverSolve(TheSolver)>>
    /\ pc' = "solved"
    /\ UNCHANGED <<container, solver, args>>

\* the outcomes of NodeStepSolver::solve, whose steps are not in the source files
StepSolverResults == {Ok(<<Step("Step Solver", <<>>)>>), Err("Step Solver failed")}

\* mesh analysis answered with an empty Step sequence
MeshResultEmpty(matrix) == Ok(<<>>)

\* the value solve returns for mesh analysis
MeshResult(matrix) ==
    Err((IF matrix THEN "Matrix" ELSE "Step") \o " Solver not implemented for meshes")

\* interfaces.rs solve(matrix, nodal, container_js)
WasmSolve(matrix, nodal, js) ==
    /\ pc = "start"
    /\ args' = <<matrix, nodal, js>>
    /\ pc' = "returned"
    /\ IF ~js.wellformed
       THEN /\ ret' = <<Err("invalid type: expected struct ContainerSetup")>>
            /\ UNCHANGED <<container, solver>>
       ELSE LET c == ContainerFrom(js)
                status == validate(c)
            IN IF ~status.ok
               THEN /\ ret' = <<Err(DisplayStatusError(status.error))>>
                    /\ container' = <<c>>
                    /\ UNCHANGED solver
               ELSE IF nodal
               THEN LET built == create_super_nodes(create_nodes(c))
                    IN IF matrix
                       THEN LET s == NodeSolverNew(create_nodes(built))
                                steps == NodeSolverSolve(s)
                            IN /\ container' = <<create_nodes(built)>>
                               /\ solver' = <<s>>
                               /\ ret' = <<IF steps.kind = "Ok"
                                             THEN serialize_steps(steps.steps)
                                             ELSE steps>>
                       ELSE /\ container' = <<built>>
                            /\ UNCHANGED solver
                            /\ \E steps \in StepSolverResults :
                                  ret' = <<IF steps.kind = "Ok"
                                             THEN serialize_steps(steps.steps)
                                             ELSE steps>>
               ELSE /\ container' = <<create_super_meshes(create_meshes(c))>>
                    /\ UNCHANGED solver
                    /\ ret' = <<MeshResult(matrix)>>

\* the element lists a caller passes, each also with its last element repeated
Inputs(k, w, cls, val) ==
    {ContainerSetup(ElementsOf(w, cls, val))}
        \cup (IF k = 1 THEN {ContainerSetup(Repeated(ElementsOf(w, cls, val)))}
              ELSE {})

\* load_wasm_container on any input that deserializes
LoadWasmContainer ==
    /\ pc = "start"
    /\ \E k \in 0..MaxElements :
         \E w \in Wirings(k), cls \in [1..k -> Classes], v \in Values :
            \E js \in Inputs(k, w, cls, ValuesFrom(k, v)) :
               load_wasm_container(js)

\* solve on any input and any pair of flags
WasmSolveAny ==
    /\ pc = "start"
    /\ \E matrix \in BOOLEAN, nodal \in BOOLEAN :
         \/ WasmSolve(matrix, nodal, Malformed)
         \/ \E k \in 0..MaxElements :
              \E w \in Wirings(k), cls \in [1..k -> Classes], v \in Values :
                 \E js \in Inputs(k, w, cls, ValuesFrom(k, v)) :
                    WasmSolve(matrix, nodal, js)

Next ==
    \/ LoadWasmContainer
    \/ WasmSolveAny
    \/ CreateNodes
    \/ New
    \/ Solve

Spec == Init /\ [][Next]_vars

(***************************************************************************)
(* What the properties below read from a state.                            *)
(***************************************************************************)
\* a NodeSolver has been constructed over the Container
HasSolver == solver # <<>>

\* the node count and the voltage-source count of the Container
NodeCount == Len(nodes(TheContainer))

VoltageCount == Len(get_voltage_sources(TheContainer))

CurrentCount ==
    Len(SelectSeq(get_elements(TheContainer), LAMBDA e : e.class = "CurrentSrc"))

AMatrix == TheSolver.a_matrix

XMatrix == TheSolver.x_matrix

ZMatrix == TheSolver.z_matrix

Shape(matrix) == <<matrix.rows, matrix.cols>>

\* the node at discovery position i, counted from 0
NodeAt(i) == nodes(TheContainer)[i + 1]

\* the ids of the members of a node that are of class cls
MemberIds(node, cls) ==
    {id \in Range(node.members) : ElementById(TheContainer, id).class = cls}

\* the call returned from the wasm entry point solve, on an input that passed
\* deserialization and validation
ReturnedValid ==
    /\ pc = "returned"
    /\ args[3].wellformed
    /\ validate(ContainerFrom(args[3])).ok

(***************************************************************************)
(* C1: with n discovered nodes and m voltage sources (current sources not  *)
(* counted), the solver built by new holds A of shape (n+m)x(n+m) and Z    *)
(* and X of shape (n+m)x1.                                                 *)
(***************************************************************************)
C1_ShapesCountVoltageSources ==
    HasSolver =>
        LET d == NodeCount + VoltageCount
        IN /\ Shape(AMatrix) = <<d, d>>
           /\ Shape(ZMatrix) = <<d, 1>>
           /\ Shape(XMatrix) = <<d, 1>>

\* what each matrix holds for one node
NodeDiagonal(node) == Sum(DiagonalSet(TheContainer, node))

NodeIncidence(node, source) ==
    IF contains(node, source) THEN BSign(TheContainer, node, source) ELSE Value(0)

NodeCurrent(node) ==
    LET set == CurrentSet(Members(TheContainer, node), 1, <<>>)
    IN IF set = <<>> THEN Value(0) ELSE Sum(set)

NodeUnknown(node) == Variable(EquationRepr(NodePrettyString(node), 0))

(***************************************************************************)
(* C2: in every matrix indexed by node (rows and columns of G, rows of B,  *)
(* the I-block rows of Z, the V-block rows of X) the node at discovery     *)
(* position i of n occupies index n-i-1.                                   *)
(***************************************************************************)
C2_ReversedDiscoveryOrder ==
    HasSolver =>
        \A i \in 0..(NodeCount - 1) :
            LET r == NodeCount - i - 1
                sources == get_voltage_sources(TheContainer)
            IN /\ AMatrix.cell[<<r, r>>] = NodeDiagonal(NodeAt(i))
               /\ \A j \in 0..(VoltageCount - 1) :
                     AMatrix.cell[<<r, NodeCount + j>>]
                        = NodeIncidence(NodeAt(i), sources[j + 1])
               /\ ZMatrix.cell[<<r, 0>>] = NodeCurrent(NodeAt(i))
               /\ XMatrix.cell[<<r, 0>>] = NodeUnknown(NodeAt(i))

(***************************************************************************)
(* C3: the A matrix is exactly the block matrix [[G,B],[C,D]]: its         *)
(* top-left n x n block is G, its top-right n x m block is B, its          *)
(* bottom-left m x n block is C, its bottom-right m x m block is D, cell   *)
(* for cell, and A has no cell outside the four blocks.  m is the source   *)
(* count form_a_matrix was given.                                          *)
(***************************************************************************)
C3_BlockMatrix ==
    HasSolver =>
        LET n == NodeCount
            m == SourceCount(TheContainer)
            g == form_g_matrix(TheContainer, n)
            b == form_b_matrix(TheContainer, n, m)
            cm == form_c_matrix(TheContainer, n, m)
            d == form_d_matrix(TheContainer, m)
        IN /\ DOMAIN AMatrix.cell = (0..(n + m - 1)) \X (0..(n + m - 1))
           /\ Shape(g) = <<n, n>> /\ Shape(b) = <<n, m>>
           /\ Shape(cm) = <<m, n>> /\ Shape(d) = <<m, m>>
           /\ \A r \in 0..(n - 1), c \in 0..(n - 1) :
                 AMatrix.cell[<<r, c>>] = g.cell[<<r, c>>]
           /\ \A r \in 0..(n - 1), c \in 0..(m - 1) :
                 AMatrix.cell[<<r, n + c>>] = b.cell[<<r, c>>]
           /\ \A r \in 0..(m - 1), c \in 0..(n - 1) :
                 AMatrix.cell[<<n + r, c>>] = cm.cell[<<r, c>>]
           /\ \A r \in 0..(m - 1), c \in 0..(m - 1) :
                 AMatrix.cell[<<n + r, n + c>>] = d.cell[<<r, c>>]

\* a solver over two nodes and a voltage source: every block has a cell, and the
\* B and C blocks hold a nonzero cell
C3_Witness ==
    /\ HasSolver
    /\ pc = "constructed"
    /\ NodeCount = 2
    /\ VoltageCount >= 1
    /\ \E r \in 0..1 : AMatrix.cell[<<r, 2>>] # Value(0)
    /\ \E c \in 0..1 : AMatrix.cell[<<2, c>>] # Value(0)

(***************************************************************************)
(* C4: C is the transpose of B: C has shape m x n and C[j, r] = B[r, j]    *)
(* for every row r of B and every source column j, both as the functions   *)
(* form them and as they lie in A.                                         *)
(***************************************************************************)
C4_Transpose ==
    HasSolver =>
        LET n == NodeCount
        IN /\ \A m \in {VoltageCount, SourceCount(TheContainer)} :
                LET b == form_b_matrix(TheContainer, n, m)
                    cm == form_c_matrix(TheContainer, n, m)
                IN /\ Shape(b) = <<n, m>>
                   /\ Shape(cm) = <<m, n>>
                   /\ DOMAIN cm.cell = (0..(m - 1)) \X (0..(n - 1))
                   /\ \A r \in 0..(n - 1), j \in 0..(m - 1) :
                         cm.cell[<<j, r>>] = b.cell[<<r, j>>]
           /\ \A r \in 0..(n - 1), j \in 0..(SourceCount(TheContainer) - 1) :
                 AMatrix.cell[<<n + j, r>>] = AMatrix.cell[<<r, n + j>>]

\* B is not square and holds both signs, so a transposition moves its cells
C4_Witness ==
    /\ HasSolver
    /\ NodeCount = 2
    /\ VoltageCount = 1
    /\ form_b_matrix(TheContainer, 2, 1).cell[<<0, 0>>] = Value(1)
    /\ form_b_matrix(TheContainer, 2, 1).cell[<<1, 0>>] = Value(0 - 1)
    /\ form_c_matrix(TheContainer, 2, 1).cell[<<0, 1>>] = Value(0 - 1)

(***************************************************************************)
(* C5: the entry point solve called with nodal = false on a container that *)
(* passes validation returns, for both values of the matrix flag, the      *)
(* error saying the solver is not implemented for meshes, and no Step      *)
(* sequence, empty or not.                                                 *)
(***************************************************************************)
C5_MeshNotImplemented ==
    (ReturnedValid /\ ~args[2]) =>
        /\ TheResult.kind = "Err"
        /\ TheResult.steps = <<>>
        /\ TheResult.text =
              (IF args[1] THEN "Matrix Solver not implemented for meshes"
               ELSE "Step Solver not implemented for meshes")
        /\ solver = <<>>

\* mesh analysis was asked with the matrix flag set, on a circuit with a source
C5_Witness ==
    /\ ReturnedValid
    /\ ~args[2]
    /\ args[1]
    /\ VoltageCount >= 1
    /\ TheResult.kind = "Err"

(***************************************************************************)
(* C6: solve() of the matrix strategy succeeds and returns its Steps in    *)
(* this order: a Step exposing A, a Step exposing Z, a Step exposing X,    *)
(* one placeholder Step for the inverse of A, then one or two Steps for    *)
(* the final equation; no other Step, whatever the circuit.                *)
(***************************************************************************)
C6_StepOrder ==
    /\ pc = "solved" =>
          LET steps == TheResult.steps
          IN /\ TheResult.kind = "Ok"
             /\ Len(steps) \in {5, 6}
             /\ steps[1] = Step("A Matrix", <<Variable(AMatrix)>>)
             /\ steps[2] = Step("Z Matrix", <<Variable(ZMatrix)>>)
             /\ steps[3] = Step("X Matrix", <<Variable(XMatrix)>>)
             /\ steps[4].label = "Inverse A Matrix"
             /\ Len(steps[4].sub_steps) = 1
             /\ steps[4].sub_steps[1].op = "Text"
             /\ \A k \in 5..Len(steps) : steps[k].label = "Final Equation"
    /\ (ReturnedValid /\ args[1] /\ args[2]) =>
          LET steps == TheResult.steps
          IN /\ TheResult.kind = "Ok"
             /\ Len(steps) \in {5, 6}
             /\ steps[1] = Step("A Matrix", <<matrix_to_latex(AMatrix)>>)
             /\ steps[2] = Step("Z Matrix", <<matrix_to_latex(ZMatrix)>>)
             /\ steps[3] = Step("X Matrix", <<matrix_to_latex(XMatrix)>>)
             /\ steps[4].label = "Inverse A Matrix"
             /\ \A k \in 5..Len(steps) : steps[k].label = "Final Equation"

\* solve() returned on a circuit whose Z and X differ in every row
C6_Witness ==
    /\ pc = "solved"
    /\ NodeCount = 2
    /\ VoltageCount = 1
    /\ CurrentCount = 0
    /\ Len(TheResult.steps) = 6

\* the matrices the Steps expose as values
ExposedMatrices(steps) ==
    UNION {{steps[k].sub_steps[h].of :
                h \in {x \in 1..Len(steps[k].sub_steps) :
                            steps[k].sub_steps[x].op = "Variable"}}
           : k \in DOMAIN steps}

(***************************************************************************)
(* C7: no Step of the matrix-strategy solve() carries a numerically        *)
(* inverted matrix: the inversion Step holds only a placeholder text, and  *)
(* the matrix shown with the inverse exponent in the final equation is A   *)
(* itself, cell for cell.                                                  *)
(***************************************************************************)
C7_NoInvertedMatrix ==
    pc = "solved" =>
        LET steps == TheResult.steps
        IN /\ steps[4].sub_steps = <<Text("TODO")>>
           /\ ExposedMatrices(steps) \subseteq {AMatrix, ZMatrix, XMatrix}
           /\ steps[Len(steps)].sub_steps =
                 <<Text(matrix_to_latex(XMatrix) \o " = "
                        \o matrix_to_latex(AMatrix) \o "^{-1} * "
                        \o matrix_to_latex(ZMatrix))>>

\* solve() returned on a circuit whose A holds a conductance and a source column
C7_Witness ==
    /\ pc = "solved"
    /\ NodeCount >= 1
    /\ VoltageCount >= 1
    /\ \E r \in 0..(NodeCount - 1) : AMatrix.cell[<<r, r>>] # Sum(<<>>)
    /\ TheResult.steps[4].sub_steps = <<Text("TODO")>>

\* the sum of the values of the elements ids, and the values a cell sums
RECURSIVE TotalValue(_)
TotalValue(ids) ==
    IF ids = {} THEN 0
    ELSE LET id == CHOOSE x \in ids : TRUE
         IN ElementById(TheContainer, id).value + TotalValue(ids \ {id})

RECURSIVE TotalOf(_)
TotalOf(terms) ==
    IF terms = <<>> THEN 0 ELSE terms[1].v + TotalOf(Tail(terms))

\* the cell holds the current sources of the node, each once, or the default
HoldsCurrentsOf(cell, node) ==
    LET ids == MemberIds(node, "CurrentSrc")
    IN IF ids = {} THEN cell = Value(0)
       ELSE /\ cell.op = "Sum"
            /\ Len(cell.terms) = Cardinality(ids)
            /\ \A k \in DOMAIN cell.terms : cell.terms[k].op = "Value"
            /\ TotalOf(cell.terms) = TotalValue(ids)
            /\ {cell.terms[k].v : k \in DOMAIN cell.terms}
                  = {ElementById(TheContainer, id).value : id \in ids}

(***************************************************************************)
(* C8: in Z each of the rows 0..n-1 belongs to one node and holds the sum  *)
(* of the values of every current source that is a member of that node,    *)
(* or the zero default when the node has no current source; row n+j holds  *)
(* the value of voltage source j; every other cell of Z is zero.           *)
(***************************************************************************)
C8_ZMatrix ==
    HasSolver =>
        LET n == NodeCount
            sources == get_voltage_sources(TheContainer)
        IN /\ DOMAIN ZMatrix.cell = (0..(ZMatrix.rows - 1)) \X {0}
           /\ ZMatrix.rows >= n + VoltageCount
           /\ \E p \in Permutations(0..(n - 1)) :
                 \A r \in 0..(n - 1) :
                     HoldsCurrentsOf(ZMatrix.cell[<<r, 0>>], NodeAt(p[r]))
           /\ \A j \in 0..(VoltageCount - 1) :
                 ZMatrix.cell[<<n + j, 0>>] = Value(sources[j + 1].value)
           /\ \A r \in (n + VoltageCount)..(ZMatrix.rows - 1) :
                 ZMatrix.cell[<<r, 0>>] = Value(0)

\* one node with two current sources, or a node with a current source and a
\* voltage source beside it
C8_Witness ==
    /\ HasSolver
    /\ \E i \in 0..(NodeCount - 1) :
          /\ MemberIds(NodeAt(i), "CurrentSrc") # {}
          /\ \/ Cardinality(MemberIds(NodeAt(i), "CurrentSrc")) = 2
             \/ MemberIds(NodeAt(i), "VoltageSrc") # {}
          /\ ZMatrix.cell[<<i, 0>>].op = "Sum"

\* the name a term 1/R or -1/R gives its resistor
NameOfReciprocal(term) == equation_repr(term.b)

NamesOf(ids) == {"R" \o ToString(id) : id \in ids}

\* the cell is a sum with one term of the given sign per resistor of ids
SumsReciprocals(cell, ids, negated) ==
    /\ cell.op = "Sum"
    /\ Len(cell.terms) = Cardinality(ids)
    /\ \A k \in DOMAIN cell.terms :
          LET term == cell.terms[k]
              quotient == IF negated THEN term.a ELSE term
          IN /\ term.op = (IF negated THEN "Negate" ELSE "Divide")
             /\ quotient.op = "Divide"
             /\ quotient.a = Value(1)
    /\ {NameOfReciprocal(IF negated THEN cell.terms[k].a ELSE cell.terms[k]) :
            k \in DOMAIN cell.terms} = NamesOf(ids)

(***************************************************************************)
(* C9: in G the diagonal cell (n-i-1, n-i-1) is the sum of 1/R over        *)
(* exactly the resistors that are members of node i, and for distinct      *)
(* nodes i, j the cell (n-i-1, n-j-1) is the sum of -1/R over exactly the  *)
(* resistors that are members of both (an empty sum when none bridges      *)
(* them); voltage and current sources contribute no term.                  *)
(***************************************************************************)
C9_GMatrix ==
    HasSolver =>
        LET n == NodeCount
        IN \A i \in 0..(n - 1), j \in 0..(n - 1) :
              LET cell == AMatrix.cell[<<n - i - 1, n - j - 1>>]
              IN IF i = j
                 THEN SumsReciprocals(cell, MemberIds(NodeAt(i), "Resistor"), FALSE)
                 ELSE SumsReciprocals(
                        cell,
                        MemberIds(NodeAt(i), "Resistor")
                            \cap MemberIds(NodeAt(j), "Resistor"),
                        TRUE)

\* two nodes bridged by a resistor, one of them holding a source as well
C9_Witness ==
    /\ HasSolver
    /\ NodeCount = 2
    /\ MemberIds(NodeAt(0), "Resistor") \cap MemberIds(NodeAt(1), "Resistor") # {}
    /\ \E i \in 0..1 :
          MemberIds(NodeAt(i), "VoltageSrc") \cup MemberIds(NodeAt(i), "CurrentSrc") # {}
    /\ AMatrix.cell[<<0, 1>>].terms # <<>>

(***************************************************************************)
(* C10: in B, for every node i and every voltage source j that is a member *)
(* of node i, cell (n-i-1, j) is -1 when the node's first recorded member  *)
(* lies in the positive-terminal set of source j and +1 otherwise; for a   *)
(* node that does not contain source j the cell of column j stays zero.    *)
(***************************************************************************)
C10_BMatrix ==
    HasSolver =>
        LET n == NodeCount
            sources == get_voltage_sources(TheContainer)
        IN \A i \in 0..(n - 1), j \in 0..(VoltageCount - 1) :
              LET cell == AMatrix.cell[<<n - i - 1, n + j>>]
                  source == sources[j + 1]
                  first == NodeAt(i).members[1]
              IN cell = (IF source.id \in Range(NodeAt(i).members)
                         THEN (IF first \in source.positive
                               THEN Value(0 - 1) ELSE Value(1))
                         ELSE Value(0))

\* a voltage source between two nodes, one cell -1 and one +1, and a node
\* without the source
C10_Witness ==
    /\ HasSolver
    /\ VoltageCount >= 1
    /\ NodeCount >= 1
    /\ \E i \in 0..(NodeCount - 1) :
          /\ AMatrix.cell[<<NodeCount - i - 1, NodeCount>>] = Value(0 - 1)
          /\ NodeAt(i).members[1] \in get_voltage_sources(TheContainer)[1].positive

\* row r of G, B, Z and X all hold what belongs to the node
RowDescribes(r, node) ==
    LET sources == get_voltage_sources(TheContainer)
    IN /\ AMatrix.cell[<<r, r>>] = NodeDiagonal(node)
       /\ \A j \in 0..(VoltageCount - 1) :
             AMatrix.cell[<<r, NodeCount + j>>] = NodeIncidence(node, sources[j + 1])
       /\ ZMatrix.cell[<<r, 0>>] = NodeCurrent(node)
       /\ XMatrix.cell[<<r, 0>>] = NodeUnknown(node)

(***************************************************************************)
(* C11: every node is given the same row index in all four node-indexed    *)
(* matrices: the row of G with the node's diagonal conductance sum, the    *)
(* row of B with its source-incidence entries, the row of Z with its       *)
(* current-source sum and the row of X with its voltage unknown are one    *)
(* and the same row, so row r of A, of X and of Z describe the same node.  *)
(***************************************************************************)
C11_SameRowInEveryMatrix ==
    HasSolver =>
        \A i \in 0..(NodeCount - 1) :
            \E r \in 0..(NodeCount - 1) : RowDescribes(r, NodeAt(i))

====
